---------------------------- MODULE Spec2Model ----------------------------
(***************************************************************************)
(* A model of the geomys geodesy kernels: the point and spheroid value     *)
(* types, the hat normalizer, the series utilities, the great-ellipse      *)
(* solver and the geocentric converter.                                    *)
(*                                                                         *)
(* ARITHMETIC.  The program computes in IEEE-754 float64.  The model       *)
(* computes in a decimal floating-point format with the same special       *)
(* values (NaN, +Inf, -Inf), the same overflow and underflow range         *)
(* (about 1.8e308 and 1e-323) and round-to-nearest after every operation,  *)
(* but with a mantissa of Digits = 4 decimal digits instead of 53 bits.    *)
(* An operation whose exact result fits the mantissa is exact, as in       *)
(* float64.  Zero is unsigned.  Library functions of package math and of   *)
(* package mym (Hypot, Sqrt, Atan2, Sincos, SinCosD, Sq, Cb) are modelled  *)
(* by what they compute, to the precision of the format.                   *)
(***************************************************************************)
EXTENDS Integers, Sequences, FiniteSets, TLC

(***************************************************************************)
(* Decimal floating point                                                  *)
(***************************************************************************)
\* The format: mantissa digits, and float64's range in decimal (the largest
\* finite value is 1.797e308, the smallest positive one 4.9e-324).
Fmt == [digits |-> 4, maxExp |-> 305, maxMant |-> 1797, minExp |-> -327]
Digits == Fmt.digits

RECURSIVE Pow10(_)
Pow10(n) == IF n <= 0 THEN 1 ELSE 10 * Pow10(n - 1)

MantLo == Pow10(Digits - 1)     \* 1000: smallest normalised mantissa
MantHi == Pow10(Digits)         \* 10000: one more than the largest

IAbs(i) == IF i < 0 THEN -i ELSE i
ISign(i) == IF i < 0 THEN -1 ELSE IF i > 0 THEN 1 ELSE 0

NaN  == [k |-> "nan", m |-> 0, e |-> 0]
PInf == [k |-> "inf", m |-> 1, e |-> 0]
NInf == [k |-> "inf", m |-> -1, e |-> 0]
Zero == [k |-> "fin", m |-> 0, e |-> 0]
Inf(s) == IF s < 0 THEN NInf ELSE PInf

IsNaN(x) == x.k = "nan"
IsInf(x) == x.k = "inf"
IsFin(x) == x.k = "fin"
IsZero(x) == x.k = "fin" /\ x.m = 0
Sgn(x) == ISign(x.m)

MaxExp == Fmt.maxExp
MaxMant == Fmt.maxMant
MinExp == Fmt.minExp

RECURSIVE NumDigits(_)
NumDigits(n) == IF n < 10 THEN 1 ELSE 1 + NumDigits(n \div 10)

\* The float nearest to s * n * 10^e, for a natural n below 2^31 - 10^6.
\* overflow to an infinity, underflow to zero
RoundRange(s, m, e) ==
    IF e > MaxExp \/ (e = MaxExp /\ m > MaxMant) THEN Inf(s)
    ELSE IF e < MinExp THEN Zero
    ELSE [k |-> "fin", m |-> s * m, e |-> e]
\* a mantissa rounded up to 10^Digits is renormalised
RoundCarry(s, r, e) ==
    IF r = MantHi THEN RoundRange(s, MantLo, e + 1) ELSE RoundRange(s, r, e)
\* n has d digits more than the mantissa holds: they are rounded off
RoundDigits(s, n, e, d) ==
    RoundCarry(s, IF d <= 0 THEN n * Pow10(-d)
                  ELSE (n + 5 * Pow10(d - 1)) \div Pow10(d), e + d)
Round(s, n, e) ==
    IF n = 0 THEN Zero ELSE RoundDigits(s, n, e, NumDigits(n) - Digits)

\* The float of the decimal literal m * 10^e.
Flt(m, e) == Round(ISign(m), IAbs(m), e)
\* The float of the integer i.
Num(i) == Flt(i, 0)

FNeg(x) == IF IsNaN(x) THEN NaN ELSE [x EXCEPT !.m = -x.m]
FAbs(x) == IF IsNaN(x) THEN NaN ELSE [x EXCEPT !.m = IAbs(x.m)]

\* the sum of two finite nonzero floats, hi the one of the larger exponent
FAddAligned(hi, lo) ==
    IF hi.e - lo.e > Digits + 1 THEN hi
    ELSE Flt(hi.m * Pow10(hi.e - lo.e) + lo.m, lo.e)

FAdd(x, y) ==
    IF IsNaN(x) \/ IsNaN(y) THEN NaN
    ELSE IF IsInf(x) /\ IsInf(y) THEN (IF x.m = y.m THEN x ELSE NaN)
    ELSE IF IsInf(x) THEN x
    ELSE IF IsInf(y) THEN y
    ELSE IF x.m = 0 THEN y
    ELSE IF y.m = 0 THEN x
    ELSE FAddAligned(IF x.e >= y.e THEN x ELSE y, IF x.e >= y.e THEN y ELSE x)

FSub(x, y) == FAdd(x, FNeg(y))

FMul(x, y) ==
    IF IsNaN(x) \/ IsNaN(y) THEN NaN
    ELSE IF IsInf(x) \/ IsInf(y)
         THEN (IF x.m = 0 \/ y.m = 0 THEN NaN ELSE Inf(ISign(x.m) * ISign(y.m)))
    ELSE Round(ISign(x.m) * ISign(y.m), IAbs(x.m) * IAbs(y.m), x.e + y.e)

\* s * q * 10^e for the integer quotient q of num by den; a sticky digit
\* keeps an inexact quotient off a rounding tie
FDivSticky(s, num, den, q, e) ==
    Round(s, IF q * den = num THEN q * 10 ELSE q * 10 + 1, e)
FDivScaled(s, num, den, e) == FDivSticky(s, num, den, num \div den, e)

FDiv(x, y) ==
    IF IsNaN(x) \/ IsNaN(y) THEN NaN
    ELSE IF IsInf(x) THEN (IF IsInf(y) THEN NaN
                           ELSE Inf(x.m * (IF y.m < 0 THEN -1 ELSE 1)))
    ELSE IF IsInf(y) THEN Zero
    ELSE IF y.m = 0 THEN (IF x.m = 0 THEN NaN ELSE Inf(ISign(x.m)))
    ELSE IF x.m = 0 THEN Zero
    ELSE FDivScaled(ISign(x.m) * ISign(y.m), IAbs(x.m) * Pow10(Digits + 1),
                    IAbs(y.m), x.e - y.e - Digits - 2)

\* Comparisons: every comparison with a NaN is false.
\* x < y for finite floats: by sign, then exponent, then mantissa
FinLt(x, y) ==
    IF x.m = 0 THEN y.m > 0
    ELSE IF y.m = 0 THEN x.m < 0
    ELSE IF (x.m < 0) # (y.m < 0) THEN x.m < 0
    ELSE IF x.e = y.e THEN x.m < y.m
    ELSE IF x.m > 0 THEN x.e < y.e
    ELSE x.e > y.e
FLt(x, y) ==
    IF IsNaN(x) \/ IsNaN(y) THEN FALSE
    ELSE IF IsInf(x) THEN x.m < 0 /\ ~(IsInf(y) /\ y.m < 0)
    ELSE IF IsInf(y) THEN y.m > 0
    ELSE FinLt(x, y)
FLe(x, y) ==
    IF IsNaN(x) \/ IsNaN(y) THEN FALSE
    ELSE x = y \/ FLt(x, y)
FGt(x, y) == FLt(y, x)
FGe(x, y) == FLe(y, x)
FEq(x, y) == ~IsNaN(x) /\ ~IsNaN(y) /\ x = y


\* The largest natural r with r * r <= n, by bisection on [lo, hi].
RECURSIVE ISqrtIn(_, _, _)
ISqrtIn(n, lo, hi) ==
    IF lo >= hi THEN lo
    ELSE LET mid == (lo + hi + 1) \div 2
         IN  IF mid * mid <= n THEN ISqrtIn(n, mid, hi) ELSE ISqrtIn(n, lo, mid - 1)
ISqrt(n) == ISqrtIn(n, 0, 46340)

\* the root of n * 10^e, e even, from the integer root r of n, with a
\* sticky digit as in FDivSticky
FSqrtRoot(n, e, r) ==
    Round(1, IF r * r = n THEN r * 10 ELSE r * 10 + 1, (e \div 2) - 1)
FSqrtScaled(n, e) == FSqrtRoot(n, e, ISqrt(n))

\* math.Sqrt
FSqrt(x) ==
    IF IsNaN(x) THEN NaN
    ELSE IF x.m < 0 THEN NaN
    ELSE IF IsInf(x) THEN PInf
    ELSE IF x.m = 0 THEN Zero
    ELSE FSqrtScaled(x.m * Pow10(Digits) * (IF x.e % 2 # 0 THEN 10 ELSE 1),
                     IF x.e % 2 # 0 THEN x.e - 1 - Digits ELSE x.e - Digits)

One == Num(1)
Two == Num(2)

\* math.Hypot: Sqrt(p*p + q*q) without undue overflow or underflow.
\* The last statement, with q already divided by p: p * Sqrt(1 + q*q)
HypotScaled(p, q) == FMul(p, FSqrt(FAdd(One, FMul(q, q))))
\* for p >= q >= 0
HypotOrdered(p, q) == IF p.m = 0 THEN Zero ELSE HypotScaled(p, FDiv(q, p))
\* for p, q >= 0: the two are swapped when p < q
HypotAbs(p, q) ==
    HypotOrdered(IF FLt(p, q) THEN q ELSE p, IF FLt(p, q) THEN p ELSE q)
FHypot(p0, q0) ==
    IF IsInf(p0) \/ IsInf(q0) THEN PInf
    ELSE IF IsNaN(p0) \/ IsNaN(q0) THEN NaN
    ELSE HypotAbs(FAbs(p0), FAbs(q0))

\* mym.Sq, mym.Cb
Sq(x) == FMul(x, x)
Cb(x) == FMul(FMul(x, x), x)

(***************************************************************************)
(* Elementary functions of package math, to the precision of the format   *)
(***************************************************************************)
Pi       == Flt(3142, -3)
PiHalf   == Flt(1571, -3)
PiFourth == Flt(7854, -4)
RadPerDeg == Flt(1745, -5)      \* math.Pi / 180
DegPerRad == Flt(5730, -2)      \* 180 / math.Pi

\* x - x^3/3 + x^5/5 - x^7/7 + x^9/9, for |x| <= tan(pi/8)
XAtanZ(x, z) ==
    FMul(x, FSub(One, FMul(z, FSub(Flt(3333, -4), FMul(z, FSub(Flt(2000, -4),
            FMul(z, FSub(Flt(1429, -4), FMul(z, Flt(1111, -4))))))))))
XAtan(x) == XAtanZ(x, FMul(x, x))

\* math.Atan for x >= 0 (satan): three ranges, split at tan(pi/8), tan(3pi/8)
\* the argument xatan is called with
SAtanArg(x) ==
    IF FLe(x, Flt(4142, -4)) THEN x
    ELSE IF FGt(x, Flt(2414, -3)) THEN FDiv(One, x)
    ELSE FDiv(FSub(x, One), FAdd(x, One))
\* the result, from t = xatan(SAtanArg(x))
SAtanSum(x, t) ==
    IF FLe(x, Flt(4142, -4)) THEN t
    ELSE IF FGt(x, Flt(2414, -3)) THEN FSub(PiHalf, t)
    ELSE FAdd(PiFourth, t)
SAtan(x) == SAtanSum(x, XAtan(SAtanArg(x)))

\* satan(x) for x > 0 and -satan(-x) otherwise, from t = satan(|x|)
AtanSigned(x, t) == IF x.m > 0 THEN t ELSE FNeg(t)
Atan(x) ==
    IF IsNaN(x) THEN NaN
    ELSE IF x.m = 0 THEN Zero
    ELSE IF IsInf(x) THEN (IF x.m > 0 THEN PiHalf ELSE FNeg(PiHalf))
    ELSE AtanSigned(x, SAtan(FAbs(x)))

\* math.Atan2 for finite nonzero y and x, from q = Atan(y/x)
Atan2Q(x, q) ==
    IF x.m < 0
    THEN (IF FLe(q, Zero) THEN FAdd(q, Pi) ELSE FSub(q, Pi))
    ELSE q

\* math.Atan2(y, x), radians in [-Pi, Pi]  (zero is unsigned: +0)
Atan2(y, x) ==
    IF IsNaN(x) \/ IsNaN(y) THEN NaN
    ELSE IF y.m = 0 THEN (IF x.m >= 0 THEN Zero ELSE Pi)
    ELSE IF x.m = 0 THEN (IF y.m > 0 THEN PiHalf ELSE FNeg(PiHalf))
    ELSE IF IsInf(x) THEN
         (IF x.m > 0
          THEN (IF IsInf(y) THEN (IF y.m > 0 THEN PiFourth ELSE FNeg(PiFourth))
                ELSE Zero)
          ELSE (IF IsInf(y)
                THEN (IF y.m > 0 THEN FMul(Num(3), PiFourth)
                      ELSE FNeg(FMul(Num(3), PiFourth)))
                ELSE (IF y.m > 0 THEN Pi ELSE FNeg(Pi))))
    ELSE IF IsInf(y) THEN (IF y.m > 0 THEN PiHalf ELSE FNeg(PiHalf))
    ELSE Atan2Q(x, Atan(FDiv(y, x)))

\* r * (180 / math.Pi).  In float64 the products for r = Pi/2 and r = Pi
\* round to exactly 90 and 180; the four-digit products would not, so the
\* quadrant angles are converted exactly.
ToDeg(r) ==
    IF IsNaN(r) THEN NaN
    ELSE IF FAbs(r) = PiHalf THEN Flt(Sgn(r) * 90, 0)
    ELSE IF FAbs(r) = Pi THEN Flt(Sgn(r) * 180, 0)
    ELSE FMul(r, DegPerRad)

\* sin and cos of a reduced argument |x| <= pi/4 (Taylor polynomials)
SinPolyZ(x, z) ==
    FMul(x, FSub(One, FMul(z, FSub(Flt(1667, -4), FMul(z, FSub(Flt(8333, -6),
            FMul(z, Flt(1984, -7))))))))
SinPoly(x) == SinPolyZ(x, FMul(x, x))
CosPolyZ(z) ==
    FSub(One, FMul(z, FSub(Flt(5000, -4), FMul(z, FSub(Flt(4167, -5),
            FMul(z, FSub(Flt(1389, -6), FMul(z, Flt(2480, -8)))))))))
CosPoly(x) == CosPolyZ(FMul(x, x))

\* (sin, cos) of the angle q * 90 degrees + r, from (sin r, cos r)
Quadrant(q, s, c) ==
    LET j == (q + 8) % 4
    IN  IF j = 0 THEN <<s, c>>
        ELSE IF j = 1 THEN <<c, FNeg(s)>>
        ELSE IF j = 2 THEN <<FNeg(s), FNeg(c)>>
        ELSE <<FNeg(c), s>>

\* The integer nearest to x, for |x| < 10^9.
RoundInt(x) ==
    IF x.e >= 0 THEN x.m * Pow10(x.e)
    ELSE IF x.e < -Digits THEN 0
    ELSE Sgn(x) * ((IAbs(x.m) + 5 * Pow10(-x.e - 1)) \div Pow10(-x.e))

\* math.Sincos(x), x in radians: reduction by multiples of Pi/2, then the
\* polynomials.  Beyond 10^Digits radians the format resolves no phase and
\* the model takes x for a multiple of 2 Pi.
\* from the quadrant q and the reduced argument r
SincosReduced(q, r) == Quadrant(q, SinPoly(r), CosPoly(r))
SincosQ(x, q) == SincosReduced(q, FSub(x, FMul(Num(q), PiHalf)))
Sincos(x) ==
    IF ~IsFin(x) THEN <<NaN, NaN>>
    ELSE IF x.e > 0 THEN <<Zero, One>>
    ELSE SincosQ(x, RoundInt(FDiv(x, PiHalf)))

\* x mod 360 with the sign of x, exactly (10^e mod 360 is 280 for e >= 3).
Pow10Mod360(e) == IF e = 0 THEN 1 ELSE IF e = 1 THEN 10 ELSE IF e = 2 THEN 100 ELSE 280
Rem360(x) ==
    IF x.e >= 0
    THEN Flt(Sgn(x) * (((IAbs(x.m) % 360) * Pow10Mod360(x.e)) % 360), 0)
    ELSE IF x.e < -Digits THEN x
    ELSE Flt(Sgn(x) * (IAbs(x.m) % (360 * Pow10(-x.e))), x.e)

\* mym.SinCosD(x): (sin, cos) of x degrees; exact at the multiples of 90.
\* the multiple of 90 degrees nearest to ra, for 0 <= ra < 360
NearestQuadrant(ra) ==
    IF FLe(ra, Num(45)) THEN 0
    ELSE IF FLt(ra, Num(135)) THEN 1
    ELSE IF FLe(ra, Num(225)) THEN 2
    ELSE IF FLt(ra, Num(315)) THEN 3
    ELSE 4
\* r degrees is q * 90 degrees + a remainder, taken to radians
SinCosDQ(r, q) == SincosReduced(q, FMul(FSub(r, Num(90 * q)), RadPerDeg))
SinCosDR(r) == SinCosDQ(r, Sgn(r) * NearestQuadrant(FAbs(r)))
SinCosD(x) ==
    IF ~IsFin(x) THEN <<NaN, NaN>>
    ELSE SinCosDR(Rem360(x))

(***************************************************************************)
(* Constants of package mym, in float64                                    *)
(***************************************************************************)
Epsilon == Flt(2220, -19)       \* mym.Epsilon, 2^-52
SqrtEps == Flt(1490, -11)       \* mym.SqrtEps, 2^-26

(***************************************************************************)
(* Point                                                                   *)
(***************************************************************************)
NoPoint == [lat |-> NaN, lon |-> NaN, alt |-> NaN]
Point(lat, lon, alt) == [lat |-> lat, lon |-> lon, alt |-> alt]

\* Geo with exclusive bounds (a variant).
GeoExclusive(lat, lon, alt) ==
    IF ~(FLt(Num(-90), lat) /\ FLt(lat, Num(90)))
    THEN [err |-> "geomys.Geo: lat not in [-90,90]", p |-> NoPoint]
    ELSE IF ~(FLt(Num(-180), lon) /\ FLt(lon, Num(180)))
    THEN [err |-> "geomys.Geo: lon not in [-180,180]", p |-> NoPoint]
    ELSE [err |-> "", p |-> Point(lat, lon, alt)]

\* Geo(lat, lon, alt): a panic is the result's err, "" when it returns.
Geo(lat, lon, alt) ==
    IF ~(FLe(Num(-90), lat) /\ FLe(lat, Num(90)))
    THEN [err |-> "geomys.Geo: lat not in [-90,90]", p |-> NoPoint]
    ELSE IF ~(FLe(Num(-180), lon) /\ FLe(lon, Num(180)))
    THEN [err |-> "geomys.Geo: lon not in [-180,180]", p |-> NoPoint]
    ELSE [err |-> "", p |-> Point(lat, lon, alt)]

\* (p Point) Geo(): lat and lon are assigned; the named result alt is
\* returned without being assigned, so it is the zero value.
PointGeo(p) == [lat |-> p.lat, lon |-> p.lon, alt |-> Zero]

(***************************************************************************)
(* Spheroid                                                                *)
(***************************************************************************)
Spheroid(a, f) == [a |-> a, f |-> f]
\* The zero value of the type (var s Spheroid).
ZeroSpheroid == Spheroid(Zero, Zero)

\* The presets.  Clarke1866 computes f = (a - b) / a on untyped constants,
\* which the compiler evaluates exactly: 0.0033900753...
Clarke1866        == Spheroid(Flt(63782064, -1), Flt(3390, -6))
International1924 == Spheroid(Num(6378388), FDiv(One, Num(297)))
WGS1972           == Spheroid(Num(6378135), FDiv(One, Flt(29826, -2)))
GRS1967           == Spheroid(Num(6378160), FDiv(One, Flt(298247167, -6)))
GRS1980           == Spheroid(Num(6378137), FDiv(One, Flt(298257222, -6)))
WGS1984           == Spheroid(Num(6378137), FDiv(One, Flt(298257223, -6)))
IERS2003          == Spheroid(Flt(63781366, -1), FDiv(One, Flt(29825642, -5)))
SRMmax            == Spheroid(Num(6400000), FDiv(One, Num(150)))

\* NewSpheroid snapping f at the threshold itself (a variant).
NewSpheroidSnapAt(a, f) ==
    IF ~(FLe(One, a) /\ FLe(a, Flt(1, 22)))
    THEN [err |-> "geomys.NewSpheroid: domain error: a", s |-> ZeroSpheroid]
    ELSE IF ~(FLe(Zero, f) /\ FLe(f, FDiv(One, Num(150))))
    THEN [err |-> "geomys.NewSpheroid: domain error: f", s |-> ZeroSpheroid]
    ELSE [err |-> "", s |-> Spheroid(a, IF FLe(f, SqrtEps) THEN Zero ELSE f)]

NewSpheroid(a, f) ==
    IF ~(FLe(One, a) /\ FLe(a, Flt(1, 22)))
    THEN [err |-> "geomys.NewSpheroid: domain error: a", s |-> ZeroSpheroid]
    ELSE IF ~(FLe(Zero, f) /\ FLe(f, FDiv(One, Num(150))))
    THEN [err |-> "geomys.NewSpheroid: domain error: f", s |-> ZeroSpheroid]
    ELSE [err |-> "", s |-> Spheroid(a, IF FLt(f, SqrtEps) THEN Zero ELSE f)]

NewSphere(r) ==
    IF ~(FLe(One, r) /\ FLe(r, Flt(1, 22)))
    THEN [err |-> "geomys.NewSphere: domain error: r", s |-> ZeroSpheroid]
    ELSE [err |-> "", s |-> Spheroid(r, Zero)]

\* A() returning the field as stored (a variant).
AStored(s) == s.a

A(s) == IF FGt(s.a, One) THEN s.a ELSE One
F(s) == s.f
B(s) == FMul(A(s), FSub(One, F(s)))
E2(s) == FMul(F(s), FSub(Two, F(s)))

(***************************************************************************)
(* hat                                                                     *)
(***************************************************************************)
\* the statements of hat after norm := math.Hypot(y, x)
hatNorm(y, x, norm) ==
    IF FLt(norm, Epsilon) THEN <<Zero, One>>
    ELSE <<FDiv(y, norm), FDiv(x, norm)>>

\* hat without the threshold branch (a variant).
hatNoThreshold(y, x) == <<FDiv(y, FHypot(y, x)), FDiv(x, FHypot(y, x))>>

hat(y, x) == hatNorm(y, x, FHypot(y, x))

(***************************************************************************)
(* Geocentric                                                              *)
(***************************************************************************)
\* Forward: the three assignments to xyz
GeocentricForwardXyz(e2, sinp, cosp, sinl, cosl, N) ==
    << FMul(FMul(N, cosp), cosl),
       FMul(FMul(N, cosp), sinl),
       FMul(FMul(N, FSub(One, e2)), sinp) >>

\* Forward from N := a / math.Sqrt(1-e2*sinp*sinp) on
GeocentricForwardN(a, e2, scp, scl) ==
    GeocentricForwardXyz(e2, scp[1], scp[2], scl[1], scl[2],
               FDiv(a, FSqrt(FSub(One, FMul(FMul(e2, scp[1]), scp[1])))))

\* Forward(p) on the converter bound to s
GeocentricForward(s, p) ==
    GeocentricForwardN(A(s), E2(s), SinCosD(PointGeo(p).lat), SinCosD(PointGeo(p).lon))

\* The domain check with the third coordinate left out (a variant).
XyzInDomainXY(xyz) ==
    FLe(FAbs(xyz[1]), Flt(1, 23)) /\ FLe(FAbs(xyz[2]), Flt(1, 23))

\* The condition of the domain check, the first statement of Inverse.
XyzInDomain(xyz) ==
    /\ FLe(FAbs(xyz[1]), Flt(1, 23))
    /\ FLe(FAbs(xyz[2]), Flt(1, 23))
    /\ FLe(FAbs(xyz[3]), Flt(1, 23))

\* Inverse: the call of Geo that ends it.  The result records how far the
\* call got: "guard" (the domain check panicked), "geo" (the two Halley
\* steps ran and the point constructor panicked) or "done".
GeocentricInverseReturn(g) ==
    [err |-> g.err, stage |-> IF g.err = "" THEN "done" ELSE "geo", p |-> g.p]

\* Inverse from the sign of phi on
GeocentricInverseAngles(xyz, phi, lam) ==
    GeocentricInverseReturn(Geo(ToDeg(IF FLt(xyz[3], Zero) THEN FNeg(phi) ELSE phi),
                      ToDeg(lam), Zero))

\* Inverse from S2, C2 on
GeocentricInverseStep2(xyz, fc, S1, C1, D1, F1, B1) ==
    GeocentricInverseAngles(xyz,
                  Atan2(FSub(FMul(D1, F1), FMul(B1, S1)),
                        FMul(fc, FSub(FMul(F1, F1), FMul(B1, C1)))),
                  Atan2(xyz[2], xyz[1]))

\* Inverse from D1, F1, B1 on
GeocentricInverseHalley1(xyz, e2, fc, P, Z, S1, C1, A1) ==
    GeocentricInverseStep2(xyz, fc, S1, C1,
        FAdd(FMul(Z, Cb(A1)), FMul(e2, Cb(S1))),
        FSub(FMul(P, Cb(A1)), FMul(e2, Cb(C1))),
        FMul(FMul(FMul(FMul(Flt(15, -1), e2), S1), C1),
             FSub(FMul(FSub(FMul(P, S1), FMul(Z, C1)), A1),
                  FMul(FMul(e2, S1), C1))))

\* Inverse from A1 on
GeocentricInverseStep1(xyz, e2, fc, P, Z, S1, C1) ==
    GeocentricInverseHalley1(xyz, e2, fc, P, Z, S1, C1, FHypot(S1, C1))

\* Inverse from S1, C1 on
GeocentricInverseUpdate0(xyz, e2, fc, P, Z, S0, C0, D0, F0, B0) ==
    GeocentricInverseStep1(xyz, e2, fc, P, Z,
                 FSub(FMul(D0, F0), FMul(B0, S0)),
                 FSub(FMul(F0, F0), FMul(B0, C0)))

\* Inverse from D0, F0, B0 on
GeocentricInverseHalley0(xyz, e2, fc, P, Z, S0, C0, A0) ==
    GeocentricInverseUpdate0(xyz, e2, fc, P, Z, S0, C0,
        FAdd(FMul(Z, Cb(A0)), FMul(e2, Cb(S0))),
        FSub(FMul(P, Cb(A0)), FMul(e2, Cb(C0))),
        FMul(FMul(FMul(Flt(15, -1), P), Sq(FMul(FMul(e2, S0), C0))),
             FSub(A0, fc)))

\* Inverse from A0 on
GeocentricInverseStep0(xyz, e2, fc, P, Z, S0, C0) ==
    GeocentricInverseHalley0(xyz, e2, fc, P, Z, S0, C0, FHypot(S0, C0))

\* Inverse from S0, C0 on
GeocentricInverseStart(xyz, e2, fc, P, Z) ==
    GeocentricInverseStep0(xyz, e2, fc, P, Z, Z, FMul(fc, P))

\* Inverse from P, Z on
GeocentricInverseScaled(xyz, a, e2, fc) ==
    GeocentricInverseStart(xyz, e2, fc,
                 FDiv(FHypot(xyz[1], xyz[2]), a),
                 FDiv(FMul(fc, FAbs(xyz[3])), a))

\* Inverse(xyz) on the converter bound to s
GeocentricInverse(s, xyz) ==
    IF ~XyzInDomain(xyz)
    THEN [err |-> "geomys.Geocentric.Inverse: domain error: xyz",
          stage |-> "guard", p |-> NoPoint]
    ELSE GeocentricInverseScaled(xyz, A(s), E2(s), FSub(One, F(s)))

(***************************************************************************)
(* Series utilities.  Go slices are indexed from 0: p[i] is At(p, i).      *)
(***************************************************************************)
At(p, i) == p[i + 1]

RECURSIVE PolyLoop(_, _, _, _, _)
\* the for loop of polyval: y = y*x + p[s]; s++ while n >= 0
PolyLoop(n, p, s, x, y) ==
    IF n >= 0 THEN PolyLoop(n - 1, p, s + 1, x, FAdd(FMul(y, x), At(p, s)))
    ELSE y

\* polyval with the loop one turn short (a variant).
polyvalShort(n, p, s, x) ==
    IF n >= 0 THEN PolyLoop(n - 2, p, s + 1, x, At(p, s)) ELSE Zero

polyval(n, p, s, x) ==
    IF n >= 0 THEN PolyLoop(n - 1, p, s + 1, x, At(p, s)) ELSE Zero

NumSeq(q) == [i \in 1..Len(q) |-> Num(q[i])]

A1m1fCoeff == NumSeq(<<25, 64, 256, 4096, 0, 16384>>)

ellA1m1f(eps) ==
    LET n == 8
        m == n \div 2
        t == FDiv(polyval(m, A1m1fCoeff, 0, FMul(eps, eps)), At(A1m1fCoeff, m + 1))
    IN  FDiv(FAdd(t, eps), FSub(One, eps))

C1fCoeff == NumSeq(<<19, -64, 384, -1024, 2048, 7, -18, 128, -256, 4096,
                     -9, 72, -128, 6144, -11, 96, -160, 16384, 35, -56,
                     10240, 9, -14, 4096, -33, 14336, -429, 262144>>)

C1pfCoeff == NumSeq(<<-4879, 9840, -20736, 36864, 73728, -86171, 120150,
                      -142080, 115200, 368640, 8703, -7200, 3712, 12288,
                      1082857, -688608, 258720, 737280, -141115, 41604,
                      92160, -2200311, 533134, 860160, 459485, 516096,
                      109167851, 82575360>>)

RECURSIVE CoeffLoop(_, _, _, _, _, _, _)
\* the loop shared by ellC1f and ellC1pf, for L = 1 .. n
CoeffLoop(coeff, n, L, oo, d, eps, C) ==
    IF L <= n
    THEN LET m  == (n - L) \div 2
             CL == FDiv(FMul(d, polyval(m, coeff, oo, FMul(eps, eps))),
                        At(coeff, oo + m + 1))
         IN  CoeffLoop(coeff, n, L + 1, oo + m + 2, FMul(d, eps), eps,
                       [C EXCEPT ![L + 1] = CL])
    ELSE C

\* the indexes of p that polyval(n, p, s, x) reads, in the order read
RECURSIVE PolyReadsLoop(_, _, _)
PolyReadsLoop(n, s, reads) ==
    IF n >= 0 THEN PolyReadsLoop(n - 1, s + 1, reads \o <<s>>) ELSE reads

polyvalReads(n, s) ==
    IF n >= 0 THEN PolyReadsLoop(n - 1, s + 1, <<s>>) ELSE <<>>

\* the indexes of coeff that the loop of ellC1f and ellC1pf reads: those of
\* polyval(m, coeff, oo, eps2), then oo + m + 1
RECURSIVE CoeffReadsLoop(_, _, _, _)
CoeffReadsLoop(n, L, oo, reads) ==
    IF L <= n
    THEN CoeffReadsLoop(n, L + 1, oo + (n - L) \div 2 + 2,
             reads \o polyvalReads((n - L) \div 2, oo)
                   \o <<oo + (n - L) \div 2 + 1>>)
    ELSE reads

ellC1f(eps)  == CoeffLoop(C1fCoeff, 8, 1, 0, eps, eps, [i \in 1..9 |-> Zero])
ellC1pf(eps) == CoeffLoop(C1pfCoeff, 8, 1, 0, eps, eps, [i \in 1..9 |-> Zero])

RECURSIVE SeriesLoop(_, _, _, _, _, _)
\* the for loop of ellSinSeries: two Clenshaw steps per turn; returns y0
SeriesLoop(n, k, ar, y0, y1, c) ==
    IF n # 0
    THEN LET y1n == FAdd(FSub(FMul(ar, y0), y1), At(c, k - 1))
             y0n == FAdd(FSub(FMul(ar, y1n), y0), At(c, k - 2))
         IN  SeriesLoop(n - 1, k - 2, ar, y0n, y1n, c)
    ELSE y0

\* the indexes of c that the loop of ellSinSeries reads, in the order read
RECURSIVE SeriesReadsLoop(_, _, _)
SeriesReadsLoop(n, k, reads) ==
    IF n # 0 THEN SeriesReadsLoop(n - 1, k - 2, reads \o <<k - 1, k - 2>>)
    ELSE reads

\* the indexes of c that ellSinSeries reads, in the order read
ellSinSeriesReads(c) ==
    IF (Len(c) - 1) % 2 # 0
    THEN SeriesReadsLoop((Len(c) - 1) \div 2, Len(c) - 1, <<Len(c) - 1>>)
    ELSE SeriesReadsLoop((Len(c) - 1) \div 2, Len(c), <<>>)

\* ellSinSeries without the statement for an odd n (a variant).
ellSinSeriesEvenOnly(sin, cos, c) ==
    FMul(FMul(FMul(Two, sin), cos),
         SeriesLoop((Len(c) - 1) \div 2, Len(c),
                    FMul(FMul(Two, FSub(cos, sin)), FAdd(cos, sin)), Zero, Zero, c))

ellSinSeries(sin, cos, c) ==
    LET k   == Len(c)
        n   == k - 1
        ar  == FMul(FMul(Two, FSub(cos, sin)), FAdd(cos, sin))
        odd == n % 2 # 0
        k1  == IF odd THEN k - 1 ELSE k
        y0  == IF odd THEN At(c, k1) ELSE Zero
    IN  FMul(FMul(FMul(Two, sin), cos), SeriesLoop(n \div 2, k1, ar, y0, Zero, c))

(***************************************************************************)
(* GreatEllipse                                                            *)
(***************************************************************************)
\* cos(90*(1-Epsilon) degrees) in float64; the sine there is exactly 1.
CosLatMax == Flt(2480, -19)

\* Inverse clamps a latitude beyond +-90*(1-Epsilon) to that value and takes
\* mym.SinCosD of it.  Of the latitudes a Point can hold only +-90 are beyond
\* the clamp, and the clamp value is not a number of this arithmetic, so the
\* two statements are taken together.
SinCosDClamped(lat) ==
    IF FGe(lat, Num(90)) THEN <<One, CosLatMax>>
    ELSE IF FLe(lat, Num(-90)) THEN <<FNeg(One), CosLatMax>>
    ELSE SinCosD(lat)

\* lon + 360 when lon <= -180, lon - 360 when lon > 180, applied once
AngNormalize(lon) ==
    IF FLe(lon, Num(-180)) THEN FAdd(lon, Num(360))
    ELSE IF FGt(lon, Num(180)) THEN FSub(lon, Num(360))
    ELSE lon

\* The statements of a function run in order: first is evaluated, then rest.
InOrder(first, rest) == IF first = first THEN rest ELSE rest

\* sbet *= f1; sbet, cbet = hat(sbet, cbet), from (sin, cos) of a latitude
ReducedLat(sc, f1) == hat(FMul(sc[1], f1), sc[2])

\* eps := k2 / (2*(1+math.Sqrt(1-k2)) - k2)
EpsOfK2(k2) == FDiv(k2, FSub(FMul(Two, FAdd(One, FSqrt(FSub(One, k2)))), k2))

\* A1 := a * (1 + ellA1m1f(eps)) * (1 - eps) / (1 + eps)
A1OfEps(a, eps) ==
    FDiv(FMul(FMul(a, FAdd(One, ellA1m1f(eps))), FSub(One, eps)), FAdd(One, eps))

\* math.Atan2(sgam, cgam*math.Sqrt(1-e2*cbet*cbet)) * (180 / math.Pi)
Azimuth(sgam, cgam, e2, cbet) ==
    ToDeg(Atan2(sgam, FMul(cgam, FSqrt(FSub(One, FMul(FMul(e2, cbet), cbet))))))

\* Inverse: s12, az1, az2.  The result also carries sin and cos of sigma12.
GreatEllipseInverseReturn(e2, cbet1, cbet2, ssig12, csig12, gam1, gam2, ssig1, csig1, ssig2, csig2, A1, C1) ==
    InOrder(<<ssig2, csig2, A1, C1>>,
      [err |-> "",
       s12 |-> FMul(A1, FAdd(Atan2(ssig12, csig12),
                             FSub(ellSinSeries(ssig2, csig2, C1),
                                  ellSinSeries(ssig1, csig1, C1)))),
       az1 |-> Azimuth(gam1[1], gam1[2], e2, cbet1),
       az2 |-> Azimuth(gam2[1], gam2[2], e2, cbet2),
       ssig12 |-> ssig12, csig12 |-> csig12])

\* Inverse from A1, C1 on
GreatEllipseInverseEps(a, e2, cbet1, cbet2, ssig12, csig12, gam1, gam2, ssig1, csig1, ssig2, csig2, eps) ==
    GreatEllipseInverseReturn(e2, cbet1, cbet2, ssig12, csig12, gam1, gam2,
                              ssig1, csig1, ssig2, csig2,
                              A1OfEps(a, eps), ellC1f(eps))

\* Inverse from ssig2, csig2, k2, eps on
GreatEllipseInverseSigma2(a, f, e2, cbet1, cbet2, ssig12, csig12, gam1, gam2, cgam0, sig1) ==
    InOrder(<<ssig12, csig12, cgam0>>,
      GreatEllipseInverseEps(a, e2, cbet1, cbet2, ssig12, csig12, gam1, gam2,
          sig1[1], sig1[2],
          FAdd(FMul(sig1[1], csig12), FMul(sig1[2], ssig12)),
          FSub(FMul(sig1[2], csig12), FMul(sig1[1], ssig12)),
          EpsOfK2(FMul(FMul(FMul(f, FSub(Two, f)), cgam0), cgam0))))

\* if ssig1 == 0 && csig1 == 0 { csig1 = 1 }; ssig1, csig1 = hat(ssig1, csig1)
GreatEllipseInverseHatSigma1(ssig1, csig1) ==
    hat(ssig1, IF IsZero(ssig1) /\ IsZero(csig1) THEN One ELSE csig1)

\* Inverse from cgam0, ssig1, csig1 on
GreatEllipseInverseSigma1(a, f, e2, sbet1, cbet1, cbet2, ssig12, csig12, gam1, gam2) ==
    GreatEllipseInverseSigma2(a, f, e2, cbet1, cbet2, ssig12, csig12, gam1, gam2,
        FHypot(gam1[2], FMul(gam1[1], sbet1)),
        GreatEllipseInverseHatSigma1(sbet1, FMul(cbet1, gam1[2])))

\* Inverse from ssig12 and the two hat calls on sgam, cgam on
GreatEllipseInverseGamma(a, f, e2, sbet1, cbet1, cbet2, sgam1, cgam1, sgam2, cgam2, csig12) ==
    GreatEllipseInverseSigma1(a, f, e2, sbet1, cbet1, cbet2,
        FHypot(sgam1, cgam1), csig12, hat(sgam1, cgam1), hat(sgam2, cgam2))

\* Inverse from sgam1, cgam1, sgam2, cgam2, csig12 on
GreatEllipseInverseLambda(a, f, e2, sbet1, cbet1, sbet2, cbet2, slam12, clam12) ==
    InOrder(<<sbet1, cbet1, sbet2, cbet2>>,
      GreatEllipseInverseGamma(a, f, e2, sbet1, cbet1, cbet2,
        FMul(cbet2, slam12),
        FSub(FMul(cbet1, sbet2), FMul(FMul(sbet1, cbet2), clam12)),
        FMul(cbet1, slam12),
        FAdd(FNeg(FMul(sbet1, cbet2)), FMul(FMul(cbet1, sbet2), clam12)),
        FAdd(FMul(sbet1, sbet2), FMul(FMul(cbet1, cbet2), clam12))))

\* Inverse from the reduced latitudes b1, b2 and (sin, cos) of lam12 on
GreatEllipseInverseBeta(a, f, e2, b1, b2, scl) ==
    GreatEllipseInverseLambda(a, f, e2, b1[1], b1[2], b2[1], b2[2], scl[1], scl[2])

\* Inverse from the coordinates g1, g2 of the two points on
GreatEllipseInverseGeo(a, f, f1, e2, g1, g2) ==
    GreatEllipseInverseBeta(a, f, e2,
        ReducedLat(SinCosDClamped(g1.lat), f1),
        ReducedLat(SinCosDClamped(g2.lat), f1),
        SinCosD(AngNormalize(FSub(g2.lon, g1.lon))))

\* Inverse(p1, p2) on the solver bound to s
GreatEllipseInverse(s, p1, p2) ==
    GreatEllipseInverseGeo(A(s), F(s), FSub(One, F(s)), E2(s),
                           PointGeo(p1), PointGeo(p2))

\* Direct: the point p2 is built by Geo, whose panic is the result's err.
GreatEllipseDirectReturn(p2, az2, lat2, lon2) ==
    [err |-> p2.err, p |-> p2.p, az2 |-> az2, lat2 |-> lat2, lon2 |-> lon2]

\* Direct from p2 = Geo(lat2, lon2, 0.0) on
GreatEllipseDirectPoint(lat2, lon2, az2) ==
    GreatEllipseDirectReturn(Geo(lat2, lon2, Zero), az2, lat2, lon2)

\* Direct from lon2, lat2, az2 on
GreatEllipseDirectLon(f1, e2, lon1, sgam2, cgam2, sbet2, cbet2, lon12) ==
    GreatEllipseDirectPoint(ToDeg(Atan2(sbet2, FMul(f1, cbet2))),
                            AngNormalize(FAdd(lon1, lon12)),
                            Azimuth(sgam2, cgam2, e2, cbet2))

\* Direct from sbet2, cbet2, slam2, clam2, sgam2, cgam2, lon12 on
GreatEllipseDirectBeta2(f1, e2, lon1, sgam0, cgam0, slam1, clam1, ssig2, csig2) ==
    InOrder(<<ssig2, csig2>>,
      GreatEllipseDirectLon(f1, e2, lon1, sgam0, FMul(cgam0, csig2),
        FMul(cgam0, ssig2),
        FHypot(sgam0, FMul(cgam0, csig2)),
        ToDeg(Atan2(FSub(FMul(FMul(sgam0, ssig2), clam1), FMul(csig2, slam1)),
                    FAdd(FMul(csig2, clam1), FMul(FMul(sgam0, ssig2), slam1))))))

\* Direct from ssig2, csig2 on
GreatEllipseDirectSigma2(f1, e2, lon1, sgam0, cgam0, slam1, clam1, ssig1, csig1, sc) ==
    GreatEllipseDirectBeta2(f1, e2, lon1, sgam0, cgam0, slam1, clam1,
        FAdd(FMul(ssig1, sc[2]), FMul(csig1, sc[1])),
        FSub(FMul(csig1, sc[2]), FMul(ssig1, sc[1])))

\* Direct from sig12 and its math.Sincos on
GreatEllipseDirectSigma12(f1, e2, lon1, sgam0, cgam0, slam1, clam1, ssig1, csig1, tau12, B11, B12) ==
    InOrder(<<B12, tau12>>,
      GreatEllipseDirectSigma2(f1, e2, lon1, sgam0, cgam0, slam1, clam1,
        ssig1, csig1, Sincos(FSub(tau12, FSub(B12, B11)))))

\* Direct from C1pa and B12 on
GreatEllipseDirectTau12(f1, e2, lon1, sgam0, cgam0, slam1, clam1, ssig1, csig1, eps, tau12, B11, stau1, ctau1, sc) ==
    GreatEllipseDirectSigma12(f1, e2, lon1, sgam0, cgam0, slam1, clam1,
        ssig1, csig1, tau12, B11,
        FNeg(ellSinSeries(FAdd(FMul(stau1, sc[2]), FMul(ctau1, sc[1])),
                          FSub(FMul(ctau1, sc[2]), FMul(stau1, sc[1])),
                          ellC1pf(eps))))

\* Direct from stau1, ctau1 and math.Sincos(tau12) on
GreatEllipseDirectTau1(f1, e2, lon1, sgam0, cgam0, slam1, clam1, ssig1, csig1, eps, tau12, B11, sc) ==
    InOrder(<<B11, tau12>>,
      GreatEllipseDirectTau12(f1, e2, lon1, sgam0, cgam0, slam1, clam1,
        ssig1, csig1, eps, tau12, B11,
        FAdd(FMul(ssig1, sc[2]), FMul(csig1, sc[1])),
        FSub(FMul(csig1, sc[2]), FMul(ssig1, sc[1])),
        Sincos(tau12)))

\* Direct from math.Sincos(B11) on
GreatEllipseDirectB11(f1, e2, lon1, sgam0, cgam0, slam1, clam1, ssig1, csig1, eps, tau12, B11) ==
    GreatEllipseDirectTau1(f1, e2, lon1, sgam0, cgam0, slam1, clam1,
        ssig1, csig1, eps, tau12, B11, Sincos(B11))

\* Direct from A1, C1a, B11 and tau12 on
GreatEllipseDirectEps(a, f1, e2, lon1, s12, sgam0, cgam0, slam1, clam1, sig1, eps) ==
    InOrder(<<eps, sig1>>,
      GreatEllipseDirectB11(f1, e2, lon1, sgam0, cgam0, slam1, clam1,
        sig1[1], sig1[2], eps,
        FDiv(s12, A1OfEps(a, eps)),
        ellSinSeries(sig1[1], sig1[2], ellC1f(eps))))

\* Direct from slam1, clam1, hat(ssig1, csig1), k2 and eps on
GreatEllipseDirectSigma1(a, f1, e2, lon1, s12, sbet1, sgam0, cgam0, csig1) ==
    GreatEllipseDirectEps(a, f1, e2, lon1, s12, sgam0, cgam0,
        FMul(sgam0, sbet1), csig1, hat(sbet1, csig1),
        EpsOfK2(FMul(FMul(e2, cgam0), cgam0)))

\* Direct from sgam0, cgam0, csig1 on
GreatEllipseDirectGamma(a, f1, e2, lon1, s12, sbet1, cbet1, gam1) ==
    InOrder(<<cbet1, gam1>>,
      GreatEllipseDirectSigma1(a, f1, e2, lon1, s12, sbet1,
        FMul(gam1[1], cbet1),
        FHypot(gam1[2], FMul(gam1[1], sbet1)),
        IF IsZero(sbet1) /\ IsZero(gam1[2]) THEN One ELSE FMul(cbet1, gam1[2])))

\* Direct from sgam1, cgam1 = hat(sgam1*math.Sqrt(1-e2*cbet1*cbet1), cgam1) on
GreatEllipseDirectBeta(a, f1, e2, lon1, s12, scg, b1) ==
    GreatEllipseDirectGamma(a, f1, e2, lon1, s12, b1[1], b1[2],
        hat(FMul(scg[1], FSqrt(FSub(One, FMul(FMul(e2, b1[2]), b1[2])))), scg[2]))

\* Direct from the coordinates g1 of p1 on
GreatEllipseDirectGeo(a, f1, e2, g1, az1, s12) ==
    GreatEllipseDirectBeta(a, f1, e2, g1.lon, s12,
        SinCosD(az1), ReducedLat(SinCosD(g1.lat), f1))

\* Direct(p1, az1, s12) on the solver bound to s
GreatEllipseDirect(s, p1, az1, s12) ==
    GreatEllipseDirectGeo(A(s), FSub(One, F(s)), E2(s), PointGeo(p1), az1, s12)

(***************************************************************************)
(* The state: the spheroid the caller holds and binds its solvers to, and  *)
(* the call in progress.                                                   *)
(***************************************************************************)
VARIABLES sph, pc, call
vars == <<sph, pc, call>>

NoCall == [op |-> "", in |-> <<>>, out |-> <<>>]

Init == sph = ZeroSpheroid /\ pc = "idle" /\ call = NoCall

Presets == {Clarke1866, International1924, WGS1972, GRS1967, GRS1980, WGS1984,
            IERS2003, SRMmax}

AInputs == {NaN, Zero, Flt(5, -1), One, Num(6378137), Flt(1, 22), Flt(1001, 19), PInf}
FInputs == {NaN, Flt(-1, -3), Zero, Flt(1, -9), SqrtEps, Flt(3353, -6),
            FDiv(One, Num(150)), Flt(6668, -6)}
LatInputs == {NaN, Flt(-9001, -2), Num(-90), Num(-45), Zero, Num(30), Num(90), Flt(9001, -2)}
LonInputs == {NaN, Flt(-1801, -1), Num(-180), Num(-90), Zero, Num(120), Num(180), Flt(1801, -1)}
AltInputs == {Zero, Num(100), Num(-50), NaN, PInf}
XyzInputs == {NaN, Zero, Num(-5), Num(-6378137), Num(4000000), Flt(1, 20),
              Flt(-1, 23), Flt(1001, 20), NInf}

HatInputs == {NaN, PInf, Zero, Flt(1, -16), Epsilon, Num(-3), Num(4), Flt(-1500, 305)}
GeoLats == {Num(-90), Num(-45), Zero, Num(90)}
GeoLons == {Num(-180), Num(-120), Num(-45), Num(90)}
\* The points a caller can hold: those Geo returns.
Points == {Geo(lat, lon, Zero).p : lat \in GeoLats, lon \in GeoLons}
MaxFloat64 == Flt(MaxMant, MaxExp)
AzInputs == {Zero, Num(45), Num(-90)}
DistInputs == {Zero, Flt(1, 6), Flt(-2, 7), MaxFloat64}

CallPreset ==
    /\ pc = "idle"
    /\ \E s \in Presets :
          /\ sph' = s
          /\ call' = [op |-> "Preset", in |-> <<>>, out |-> [err |-> "", s |-> s]]
    /\ pc' = "done"

CallZeroValue ==
    /\ pc = "idle"
    /\ sph' = ZeroSpheroid
    /\ call' = [op |-> "ZeroValue", in |-> <<>>, out |-> [err |-> "", s |-> ZeroSpheroid]]
    /\ pc' = "done"

CallNewSpheroid ==
    /\ pc = "idle"
    /\ \E a \in AInputs, f \in FInputs :
          LET r == NewSpheroid(a, f)
          IN  /\ call' = [op |-> "NewSpheroid", in |-> <<a, f>>, out |-> r]
              /\ sph' = IF r.err = "" THEN r.s ELSE sph
    /\ pc' = "done"

CallNewSphere ==
    /\ pc = "idle"
    /\ \E r0 \in AInputs :
          LET r == NewSphere(r0)
          IN  /\ call' = [op |-> "NewSphere", in |-> <<r0>>, out |-> r]
              /\ sph' = IF r.err = "" THEN r.s ELSE sph
    /\ pc' = "done"

CallGeo ==
    /\ pc = "idle"
    /\ \E lat \in LatInputs, lon \in LonInputs, alt \in AltInputs :
          call' = [op |-> "Geo", in |-> <<lat, lon, alt>>, out |-> Geo(lat, lon, alt)]
    /\ pc' = "done"
    /\ UNCHANGED sph

CallGeocentricInverse ==
    /\ pc = "idle"
    /\ \E x \in XyzInputs, y \in XyzInputs, z \in XyzInputs :
          call' = [op |-> "Geocentric.Inverse", in |-> <<x, y, z>>,
                   out |-> GeocentricInverse(sph, <<x, y, z>>)]
    /\ pc' = "done"
    /\ UNCHANGED sph

CallHat ==
    /\ pc = "idle"
    /\ \E y \in HatInputs, x \in HatInputs :
          call' = [op |-> "hat", in |-> <<y, x>>, out |-> hat(y, x)]
    /\ pc' = "done"
    /\ UNCHANGED sph

CallGeocentricForward ==
    /\ pc = "idle"
    /\ \E p \in Points :
          call' = [op |-> "Geocentric.Forward", in |-> <<p>>,
                   out |-> [err |-> "", xyz |-> GeocentricForward(sph, p)]]
    /\ pc' = "done"
    /\ UNCHANGED sph

CallGreatEllipseInverse ==
    /\ pc = "idle"
    /\ \E p1 \in Points, p2 \in Points :
          call' = [op |-> "GreatEllipse.Inverse", in |-> <<p1, p2>>,
                   out |-> GreatEllipseInverse(sph, p1, p2)]
    /\ pc' = "done"
    /\ UNCHANGED sph

CallGreatEllipseDirect ==
    /\ pc = "idle"
    /\ \E p1 \in Points, az1 \in AzInputs, s12 \in DistInputs :
          call' = [op |-> "GreatEllipse.Direct", in |-> <<p1, az1, s12>>,
                   out |-> GreatEllipseDirect(sph, p1, az1, s12)]
    /\ pc' = "done"
    /\ UNCHANGED sph

\* The caller drops the result: every value is constructed per use.
Return ==
    /\ pc = "done"
    /\ pc' = "idle"
    /\ call' = NoCall
    /\ UNCHANGED sph

Next ==
    \/ CallPreset \/ CallZeroValue \/ CallNewSpheroid \/ CallNewSphere
    \/ CallGeo \/ CallHat \/ CallGeocentricForward \/ CallGeocentricInverse
    \/ CallGreatEllipseInverse \/ CallGreatEllipseDirect \/ Return

Spec == Init /\ [][Next]_vars

(***************************************************************************)
(* The utilities called on their own: the series functions and the point   *)
(* accessor are functions of their arguments alone, whatever spheroid the  *)
(* caller holds.                                                           *)
(***************************************************************************)
\* Arguments of ellSinSeries on which every operation of the arithmetic is
\* exact: small integers for sin and cos, coefficient vectors of every
\* length from 1 to MaxSeriesLen (n = 0 .. MaxSeriesLen - 1, even and odd).
MaxSeriesLen == 4
SeriesArgs == {Num(-1), Zero, Num(1), Num(2)}
SeriesCoeffs == {Zero, Num(1), Num(-2)}
SeriesVectors == UNION {[1..len -> SeriesCoeffs] : len \in 1..MaxSeriesLen}

CallEllSinSeries ==
    /\ pc = "idle"
    /\ \E sin \in SeriesArgs, cos \in SeriesArgs, c \in SeriesVectors :
          call' = [op |-> "ellSinSeries", in |-> <<sin, cos, c>>,
                   out |-> [err |-> "", y |-> ellSinSeries(sin, cos, c),
                            reads |-> ellSinSeriesReads(c)]]
    /\ pc' = "done"
    /\ UNCHANGED sph

\* Arguments of the coefficient builders: eps is about 0.0017 on the Earth.
EpsInputs == {NaN, Zero, Flt(1678, -6), Flt(-1, -2), Flt(5, -1), One, Num(-2),
              Flt(3, 40), PInf}

CallEllC1f ==
    /\ pc = "idle"
    /\ \E eps \in EpsInputs :
          call' = [op |-> "ellC1f", in |-> <<eps>>,
                   out |-> [err |-> "", C |-> ellC1f(eps),
                            reads |-> CoeffReadsLoop(8, 1, 0, <<>>)]]
    /\ pc' = "done"
    /\ UNCHANGED sph

CallEllC1pf ==
    /\ pc = "idle"
    /\ \E eps \in EpsInputs :
          call' = [op |-> "ellC1pf", in |-> <<eps>>,
                   out |-> [err |-> "", C |-> ellC1pf(eps),
                            reads |-> CoeffReadsLoop(8, 1, 0, <<>>)]]
    /\ pc' = "done"
    /\ UNCHANGED sph

\* The points Geo returns for these latitudes, longitudes and altitudes.
AltPoints == {Geo(lat, lon, alt).p : lat \in GeoLats, lon \in GeoLons,
                                     alt \in AltInputs}

CallPointGeo ==
    /\ pc = "idle"
    /\ \E p \in AltPoints :
          call' = [op |-> "Point.Geo", in |-> <<p>>,
                   out |-> [err |-> "", geo |-> PointGeo(p)]]
    /\ pc' = "done"
    /\ UNCHANGED sph

UtilNext ==
    \/ CallEllSinSeries \/ CallEllC1f \/ CallEllC1pf \/ CallPointGeo \/ Return

UtilSpec == Init /\ [][UtilNext]_vars

(***************************************************************************)
(* Properties                                                              *)
(***************************************************************************)
Done(op) == pc = "done" /\ call.op = op

\* Outside [lo, hi], a NaN included, stated without the code's comparison.
Outside(v, lo, hi) == IsNaN(v) \/ FLt(v, lo) \/ FGt(v, hi)

\* C1: Geocentric.Inverse panics with its domain error, before the Halley
\* steps, whenever a coordinate is NaN or has magnitude above 1e23, whatever
\* the other coordinates and the spheroid are.
C1_InverseDomainError ==
    (Done("Geocentric.Inverse")
       /\ \E i \in 1..3 : Outside(call.in[i], Flt(-1, 23), Flt(1, 23)))
    => /\ call.out.stage = "guard"
       /\ call.out.err = "geomys.Geocentric.Inverse: domain error: xyz"

C1_Witness ==
    /\ Done("Geocentric.Inverse")
    /\ sph = WGS1984
    /\ call.in = <<Zero, Num(-5), Flt(1001, 20)>>
    /\ call.out.stage = "guard"

\* C3: Geo panics exactly when lat is outside [-90,90] or lon is outside
\* [-180,180] (bounds inclusive, NaN outside); alt never matters, and the
\* point returned holds the three values given.
C3_GeoDomain ==
    Done("Geo") =>
        LET bad == \/ Outside(call.in[1], Num(-90), Num(90))
                   \/ Outside(call.in[2], Num(-180), Num(180))
        IN  /\ (call.out.err # "") <=> bad
            /\ ~bad => call.out.p = [lat |-> call.in[1], lon |-> call.in[2],
                                     alt |-> call.in[3]]

C3_Witness ==
    /\ Done("Geo")
    /\ call.in = <<Num(90), Num(-180), NaN>>
    /\ call.out.err = ""
    /\ call.out.p.lat = Num(90)

\* C4: NewSpheroid panics exactly when a is outside [1,1e22] or f is outside
\* [0,1/150]; the spheroid returned has A() = a, and F() = 0 when f is below
\* SqrtEps and F() = f otherwise.
C4_NewSpheroidDomain ==
    Done("NewSpheroid") =>
        LET a   == call.in[1]
            f   == call.in[2]
            bad == \/ Outside(a, One, Flt(1, 22))
                   \/ Outside(f, Zero, FDiv(One, Num(150)))
        IN  /\ (call.out.err # "") <=> bad
            /\ ~bad => /\ A(call.out.s) = a
                       /\ F(call.out.s) = IF FLt(f, SqrtEps) THEN Zero ELSE f

C4_Witness ==
    /\ Done("NewSpheroid")
    /\ call.in = <<Flt(1, 22), SqrtEps>>
    /\ call.out.err = ""
    /\ F(call.out.s) = SqrtEps

\* C2: in the four kernel operations the only panic is the input check made
\* before any numerical work: a call that got past it returns.
C2_OnlyValidationFails ==
    \A op \in {"Geocentric.Forward", "Geocentric.Inverse",
               "GreatEllipse.Inverse", "GreatEllipse.Direct"} :
        (Done(op) /\ call.out.err # "")
        => (op = "Geocentric.Inverse" /\ call.out.stage = "guard")

\* C7: the distance of Inverse(p1, p2) equals the distance of Inverse(p2, p1).
C7_InverseSymmetric ==
    Done("GreatEllipse.Inverse")
    => call.out.s12 = GreatEllipseInverse(sph, call.in[2], call.in[1]).s12

\* C8: Inverse(p, p) panics for no p and returns distance 0, with
\* sin(sigma12) = 0 and cos(sigma12) = 1.
C8_CoincidentZero ==
    (Done("GreatEllipse.Inverse") /\ call.in[1] = call.in[2])
    => /\ call.out.err = ""
       /\ call.out.ssig12 = Zero
       /\ call.out.csig12 = One
       /\ call.out.s12 = Zero

\* C9: for a valid p1 and finite azimuth and distance, Direct builds p2 with
\* lat in [-90,90] and lon in (-180,180], so Geo does not panic.
C9_DirectInRange ==
    Done("GreatEllipse.Direct")
    => /\ call.out.err = ""
       /\ FLe(Num(-90), call.out.lat2) /\ FLe(call.out.lat2, Num(90))
       /\ FLt(Num(-180), call.out.lon2) /\ FLe(call.out.lon2, Num(180))

\* unit norm, to the rounding of the arithmetic
UnitNorm(v) ==
    LET n2 == FAdd(Sq(v[1]), Sq(v[2]))
    IN  FLe(Flt(998, -3), n2) /\ FLe(n2, Flt(1002, -3))

\* the direction of (y, x): no component changes sign (a quotient may
\* underflow to 0)
SameDirection(v, y, x) ==
    /\ IsZero(v[1]) \/ Sgn(v[1]) = Sgn(y)
    /\ IsZero(v[2]) \/ Sgn(v[2]) = Sgn(x)

\* What C10 says of hat(y, x), r = hypot(y, x)
HatContract(y, x, out) ==
    LET r == FHypot(y, x)
    IN  IF FLt(r, Epsilon) THEN out = <<Zero, One>>
        ELSE /\ out = <<FDiv(y, r), FDiv(x, r)>>
             /\ UnitNorm(out)
             /\ SameDirection(out, y, x)

\* C10 as stated: for every pair (y, x), hat returns (0, 1) below the
\* threshold and otherwise (y/r, x/r), a unit vector in the direction of
\* the input.
C10_HatEveryPair ==
    Done("hat") => HatContract(call.in[1], call.in[2], call.out)

\* C10 as amended: the same for every finite pair (y, x) whose hypot is finite.
C10_HatFinite ==
    (Done("hat") /\ IsFin(call.in[1]) /\ IsFin(call.in[2])
       /\ IsFin(FHypot(call.in[1], call.in[2])))
    => HatContract(call.in[1], call.in[2], call.out)

C10_Witness ==
    /\ Done("hat")
    /\ call.in = <<Num(-3), Num(4)>>
    /\ call.out = <<Flt(-6, -1), Flt(8, -1)>>

\* The operations of the solvers and converters bound to a spheroid.
SolverOps == {"Geocentric.Forward", "Geocentric.Inverse",
              "GreatEllipse.Inverse", "GreatEllipse.Direct"}

\* C5: the spheroid held always has A() >= 1 and 0 <= F() <= 1/150, however
\* it was obtained (preset, NewSpheroid, NewSphere, zero value), and no
\* operation of a solver or converter bound to it changes it.
C5_SpheroidInvariant ==
    /\ [](/\ FGe(A(sph), One)
          /\ FLe(Zero, F(sph))
          /\ FLe(F(sph), FDiv(One, Num(150))))
    /\ [][call'.op \in SolverOps => sph' = sph]_vars

C5_Witness ==
    /\ Done("Geocentric.Inverse")
    /\ sph = ZeroSpheroid
    /\ call.out.stage = "done"

\* The sum of c[l] * U_(l-1)(x) for l from l up to n = Len(c) - 1, where
\* ar = 2 x, u1 = U_(l-1)(x) and u0 = U_(l-2)(x): the Chebyshev polynomials
\* of the second kind, by their forward recurrence U_l = 2 x U_(l-1) - U_(l-2).
RECURSIVE ChebyshevSum(_, _, _, _, _, _)
ChebyshevSum(c, l, ar, u1, u0, acc) ==
    IF l > Len(c) - 1 THEN acc
    ELSE ChebyshevSum(c, l + 1, ar, FSub(FMul(ar, u1), u0), u1,
                      FAdd(acc, FMul(At(c, l), u1)))

\* n, n-1, ..., 1
Descending(n) == [i \in 1..n |-> n - i + 1]

\* C11: ellSinSeries(sin, cos, c) is 2 sin cos times the sum over l = 1..n
\* of c[l] * U_(l-1)(cos^2 - sin^2), for n even and odd, and it reads
\* c[n], ..., c[1] once each and nothing else of c.
C11_SeriesSum ==
    Done("ellSinSeries") =>
        /\ call.out.y =
              FMul(FMul(FMul(Two, call.in[1]), call.in[2]),
                   ChebyshevSum(call.in[3], 1,
                       FMul(Two, FSub(FMul(call.in[2], call.in[2]),
                                      FMul(call.in[1], call.in[1]))),
                       One, Zero, Zero))
        /\ call.out.reads = Descending(Len(call.in[3]) - 1)

C11_Witness ==
    /\ Done("ellSinSeries")
    /\ call.in = <<Num(1), Num(2), <<Num(-2), Num(1), Zero, Num(-2)>>>>
    /\ call.out.y = Num(-276)
    /\ call.out.reads = <<3, 2, 1>>


\* The table of the builder that was called.
TableOf(op) == IF op = "ellC1f" THEN C1fCoeff ELSE C1pfCoeff

\* The window of order L in a table for orders 1 .. 8: WindowLen(L) entries
\* from index WindowStart(L) on, followed by the divisor d_L.
WindowLen(L) == (8 - L) \div 2 + 1
RECURSIVE WindowStart(_)
WindowStart(L) == IF L = 1 THEN 0 ELSE WindowStart(L - 1) + WindowLen(L - 1) + 1

\* Horner's rule over the window of order L, highest power first, from its
\* entry i on: y is the value of the entries before i.
RECURSIVE Horner(_, _, _, _, _)
Horner(T, L, i, x, y) ==
    IF i >= WindowLen(L) THEN y
    ELSE Horner(T, L, i + 1, x, FAdd(FMul(y, x), At(T, WindowStart(L) + i)))

\* eps^L as the product eps * eps * ... of L factors
RECURSIVE Power(_, _)
Power(eps, L) == IF L = 1 THEN eps ELSE FMul(Power(eps, L - 1), eps)

\* 0, 1, ..., n - 1
Ascending(n) == [i \in 1..n |-> i - 1]

\* C12: ellC1f(eps) and ellC1pf(eps) return C with C[0] = 0 and, for L = 1..8,
\* C[L] = eps^L * H_L(eps^2) / d_L, H_L the Horner value of the window of
\* order L and d_L the entry after it; the windows are consecutive and
\* disjoint and cover the 28 entries: every index 0..27 is read once, in order.
C12_CoefficientBuilders ==
    (Done("ellC1f") \/ Done("ellC1pf")) =>
        /\ Len(call.out.C) = 9
        /\ At(call.out.C, 0) = Zero
        /\ \A L \in 1..8 :
              At(call.out.C, L) =
                FDiv(FMul(Power(call.in[1], L),
                          Horner(TableOf(call.op), L, 1,
                                 FMul(call.in[1], call.in[1]),
                                 At(TableOf(call.op), WindowStart(L)))),
                     At(TableOf(call.op), WindowStart(L) + WindowLen(L)))
        /\ Len(TableOf(call.op)) = 28
        /\ WindowStart(8) + WindowLen(8) = 27
        /\ call.out.reads = Ascending(28)

C12_Witness ==
    /\ Done("ellC1pf")
    /\ call.in = <<Flt(5, -1)>>
    /\ At(call.out.C, 0) = Zero
    /\ At(call.out.C, 8) # Zero
    /\ Len(call.out.reads) = 28


\* C13: p.Geo() returns the latitude, the longitude and the altitude that p
\* was constructed with.
C13_PointKeepsAltitude ==
    Done("Point.Geo") =>
        call.out.geo = [lat |-> call.in[1].lat, lon |-> call.in[1].lon,
                        alt |-> call.in[1].alt]

=============================================================================
